---------------------------- MODULE Spec2Model ----------------------------
(***************************************************************************)
(* A model of the rusty toy rendering engine front end:                    *)
(*   src/source/html.rs   the markup parser (a cursor over the input)      *)
(*   src/source/dom.rs    the document tree                                *)
(*   src/source/css.rs    the selector part of the style-sheet parser      *)
(*   src/source/style.rs  selector matching and the cascade                *)
(*                                                                         *)
(* Text is modelled as a sequence of one-character strings, so that the    *)
(* parsers work character by character as the code does.  A character is   *)
(* one cursor unit: the model alphabet holds no multi-byte characters.     *)
(***************************************************************************)
EXTENDS Integers, Sequences, FiniteSets, TLC

VARIABLES
    input,      \* html.rs Parser.input
    pos,        \* html.rs Parser.pos
    stack,      \* the call stack of the markup parser: one frame per active call
    ret,        \* the value the last returned call handed to its caller
    result,     \* the outcome of html::parse: none yet, a tree, or a panic
    css_input,  \* css.rs Parser.input
    css_pos,    \* css.rs Parser.pos
    selectors,  \* parse_selectors: the local vector `selectors`
    css_span,   \* the part of css_input the last simple selector was read from
    css_out,    \* the outcome of parse_selectors: none yet, a list, or a panic
    m_elem,     \* matches_simple_selector: the argument elem
    m_sel,      \* matches_simple_selector: the argument selector
    m_out,      \* matches_simple_selector: the value returned
    c_elem,     \* specified_values: the argument elem
    c_sheet,    \* specified_values: the argument stylesheet (its rules)
    c_out,      \* specified_values: the sorted matches and the map returned
    t_root,     \* style_tree: the argument root
    t_sheet,    \* style_tree: the argument stylesheet (its rules)
    t_out       \* style_tree: the StyledNode returned

htmlVars == <<input, pos, stack, ret, result>>

cssVars == <<css_input, css_pos, selectors, css_span, css_out>>

matchVars == <<m_elem, m_sel, m_out>>

cascadeVars == <<c_elem, c_sheet, c_out>>

treeVars == <<t_root, t_sheet, t_out>>

vars == <<htmlVars, cssVars, matchVars, cascadeVars, treeVars>>

-----------------------------------------------------------------------------
(* Bounds *)

MaxTokens == 3

MaxCssTokens == 4

MaxRules == 3

MaxChildren == 2

-----------------------------------------------------------------------------
(* Each specification below runs one component; the others stay idle. *)

Idle == [kind |-> "idle"]

IdleHtml == /\ input = << >>
            /\ pos = 0
            /\ stack = << >>
            /\ ret = Idle
            /\ result = Idle

IdleCss == /\ css_input = << >>
           /\ css_pos = 0
           /\ selectors = << >>
           /\ css_span = <<0, 0>>
           /\ css_out = Idle

IdleMatch == /\ m_elem = Idle
             /\ m_sel = Idle
             /\ m_out = Idle

IdleCascade == /\ c_elem = Idle
               /\ c_sheet = << >>
               /\ c_out = Idle

IdleTree == /\ t_root = Idle
            /\ t_sheet = << >>
            /\ t_out = Idle

-----------------------------------------------------------------------------
(* Characters *)

\* char::is_whitespace on the model alphabet
IsWhitespace(c) == c = " "

\* the match arms of parse_tag_name: 'a'...'z' | 'A'...'Z' | '0'...'9'
IsAlnum(c) == c \in {"a", "b", "c", "d", "i", "l", "p", "q", "s", "x", "y", "h", "t", "m", "0", "1"}

\* The tests handed to consume_while, by name; NotQuote carries the quote.
TestHolds(test, quote, c) ==
    CASE test = "whitespace" -> IsWhitespace(c)
      [] test = "alnum"      -> IsAlnum(c)
      [] test = "not_lt"     -> c /= "<"
      [] test = "not_quote"  -> c /= quote

-----------------------------------------------------------------------------
(* dom.rs *)

EmptyMap == << >>

MapInsert(m, k, v) == [n \in (DOMAIN m) \cup {k} |-> IF n = k THEN v ELSE m[n]]

text(data) == [children |-> << >>, node_type |-> [kind |-> "Text", data |-> data]]

elem(name, attrs, children) ==
    [children |-> children,
     node_type |-> [kind |-> "Element", tag_name |-> name, attributes |-> attrs]]

-----------------------------------------------------------------------------
(* html.rs: the cursor *)

eof == pos >= Len(input)

next_char == input[pos + 1]

starts_with(s) ==
    /\ pos + Len(s) <= Len(input)
    /\ SubSeq(input, pos + 1, pos + Len(s)) = s


\* The outcome of a parse: nothing yet, a returned tree, or a failed assertion
\* (assert! and the out-of-range char_at/char_range_at panic: the parse is
\* abandoned and nothing is returned).
NoNode == [children |-> << >>, node_type |-> [kind |-> "None"]]

Running == [kind |-> "none", at |-> "", node |-> NoNode]

Returned(node) == [kind |-> "ok", at |-> "", node |-> node]

Panicked(at) == [kind |-> "panic", at |-> at, node |-> NoNode]

Top == stack[Len(stack)]

Below == SubSeq(stack, 1, Len(stack) - 1)

At(fn, pc) == /\ result.kind = "none"
              /\ stack /= << >>
              /\ Top.fn = fn
              /\ Top.pc = pc

\* The frames of the calls the parser makes
ConsumeWhileFrame(test, quote) ==
    [fn |-> "consume_while", pc |-> "loop", test |-> test, quote |-> quote, out |-> << >>]

\* consume_whitespace: consume_while(|c| c.is_whitespace()), result discarded
consume_whitespace == ConsumeWhileFrame("whitespace", "")

\* parse_tag_name: consume_while over 'a'...'z' | 'A'...'Z' | '0'...'9'
parse_tag_name == ConsumeWhileFrame("alnum", "")

ParseNodesFrame == [fn |-> "parse_nodes", pc |-> "ws", nodes |-> << >>, mark |-> 0]

ParseTextFrame == [fn |-> "parse_text", pc |-> "scan"]

ParseElementFrame ==
    [fn |-> "parse_element", pc |-> "open", tag_name |-> << >>, attrs |-> EmptyMap,
     children |-> << >>]

ParseAttributesFrame ==
    [fn |-> "parse_attributes", pc |-> "ws", attributes |-> EmptyMap, mark |-> 0]

ParseAttrFrame == [fn |-> "parse_attr", pc |-> "name", name |-> << >>, vstart |-> 0]

ParseAttrValueFrame == [fn |-> "parse_attr_value", pc |-> "open"]

\* The caller moves to `pc` (with `frame` its updated locals) and calls `callee`.
Call(frame, pc, callee) ==
    stack' = Append(Append(Below, [frame EXCEPT !.pc = pc]), callee)

\* A returned value, tagged with what it is
NoValue == [kind |-> "none", val |-> << >>]

\* The top frame returns v (a `kind`) to its caller.
Return(kind, v) == /\ stack' = Below
                   /\ ret' = [kind |-> kind, val |-> v]

Panic(at) == /\ result' = Panicked(at)
             /\ stack' = << >>
             /\ ret' = NoValue

-----------------------------------------------------------------------------
(* html.rs: consume_char, consume_while *)

\* Mutant: the character is read and the cursor is left where it was
consume_char_Stuck == pos' = pos

\* consume_char: the cursor moves to the next character
consume_char == pos' = pos + 1

\* One evaluation of the loop condition of consume_while, and the body if it holds
ConsumeWhile_Step ==
    /\ At("consume_while", "loop")
    /\ IF ~eof /\ TestHolds(Top.test, Top.quote, next_char)
       THEN /\ stack' = Append(Below, [Top EXCEPT !.out = Append(@, next_char)])
            /\ consume_char
            /\ UNCHANGED <<ret, result>>
       ELSE /\ Return("string", Top.out)
            /\ UNCHANGED <<pos, result>>
    /\ UNCHANGED input
    /\ UNCHANGED <<cssVars, matchVars, cascadeVars, treeVars>>

-----------------------------------------------------------------------------
(* html.rs: parse_nodes, parse_node, parse_text *)

\* parse_node: the callee chosen by the next character
parse_node(c) == IF c = "<" THEN ParseElementFrame ELSE ParseTextFrame

ParseNodes_Whitespace ==
    /\ At("parse_nodes", "ws")
    /\ Call([Top EXCEPT !.mark = pos], "test", consume_whitespace)
    /\ UNCHANGED <<input, pos, ret, result>>
    /\ UNCHANGED <<cssVars, matchVars, cascadeVars, treeVars>>

ParseNodes_Test ==
    /\ At("parse_nodes", "test")
    /\ IF eof \/ starts_with(<<"<", "/">>)
       THEN Return("nodes", Top.nodes)
       ELSE /\ Call(Top, "push", parse_node(next_char))
            /\ UNCHANGED ret
    /\ UNCHANGED <<input, pos, result>>
    /\ UNCHANGED <<cssVars, matchVars, cascadeVars, treeVars>>

ParseNodes_Push ==
    /\ At("parse_nodes", "push")
    /\ stack' = Append(Below, [Top EXCEPT !.nodes = Append(@, ret.val), !.pc = "ws"])
    /\ UNCHANGED <<input, pos, ret, result>>
    /\ UNCHANGED <<cssVars, matchVars, cascadeVars, treeVars>>

ParseText_Scan ==
    /\ At("parse_text", "scan")
    /\ Call(Top, "wrap", ConsumeWhileFrame("not_lt", ""))
    /\ UNCHANGED <<input, pos, ret, result>>
    /\ UNCHANGED <<cssVars, matchVars, cascadeVars, treeVars>>

ParseText_Wrap ==
    /\ At("parse_text", "wrap")
    /\ Return("node", text(ret.val))
    /\ UNCHANGED <<input, pos, result>>
    /\ UNCHANGED <<cssVars, matchVars, cascadeVars, treeVars>>

-----------------------------------------------------------------------------
(* html.rs: parse_element *)

\* assert!(self.consume_char() == c), then `cont`: char_range_at panics at the
\* end of the input; otherwise the cursor advances and the assertion decides.
Expect(c, at, cont) ==
    IF eof
    THEN Panic("eof") /\ UNCHANGED pos
    ELSE /\ consume_char
         /\ IF next_char = c THEN cont ELSE Panic(at)

\* Mutant: the closing tag's name is not compared
CloseTagMatches_Unchecked(name, tag_name) == TRUE

\* assert!(self.parse_tag_name() == tag_name)
CloseTagMatches(name, tag_name) == name = tag_name

ParseElement_Open ==
    /\ At("parse_element", "open")
    /\ Expect("<", "open_lt",
              Call(Top, "attrs", parse_tag_name) /\ UNCHANGED <<ret, result>>)
    /\ UNCHANGED input
    /\ UNCHANGED <<cssVars, matchVars, cascadeVars, treeVars>>

ParseElement_Attrs ==
    /\ At("parse_element", "attrs")
    /\ Call([Top EXCEPT !.tag_name = ret.val], "gt", ParseAttributesFrame)
    /\ UNCHANGED <<input, pos, ret, result>>
    /\ UNCHANGED <<cssVars, matchVars, cascadeVars, treeVars>>

ParseElement_Gt ==
    /\ At("parse_element", "gt")
    /\ Expect(">", "open_gt",
              Call([Top EXCEPT !.attrs = ret.val], "close", ParseNodesFrame)
                  /\ UNCHANGED <<ret, result>>)
    /\ UNCHANGED input
    /\ UNCHANGED <<cssVars, matchVars, cascadeVars, treeVars>>

ParseElement_Close ==
    /\ At("parse_element", "close")
    /\ Expect("<", "close_lt",
              /\ stack' = Append(Below, [Top EXCEPT !.children = ret.val, !.pc = "slash"])
              /\ UNCHANGED <<ret, result>>)
    /\ UNCHANGED input
    /\ UNCHANGED <<cssVars, matchVars, cascadeVars, treeVars>>

ParseElement_Slash ==
    /\ At("parse_element", "slash")
    /\ Expect("/", "close_slash",
              Call(Top, "name", parse_tag_name) /\ UNCHANGED <<ret, result>>)
    /\ UNCHANGED input
    /\ UNCHANGED <<cssVars, matchVars, cascadeVars, treeVars>>

ParseElement_Name ==
    /\ At("parse_element", "name")
    /\ IF CloseTagMatches(ret.val, Top.tag_name)
       THEN Expect(">", "close_gt",
                   Return("node", elem(Top.tag_name, Top.attrs, Top.children))
                       /\ UNCHANGED result)
       ELSE Panic("close_tag_name") /\ UNCHANGED pos
    /\ UNCHANGED input
    /\ UNCHANGED <<cssVars, matchVars, cascadeVars, treeVars>>

-----------------------------------------------------------------------------
(* html.rs: parse_attr, parse_attr_value, parse_attributes *)

\* assert!(open_quote == '"' || open_quote == '\''): the source's second
\* literal is written '\' and is read as the single quote
IsQuote(c) == c = "\"" \/ c = "'"

ParseAttributes_Whitespace ==
    /\ At("parse_attributes", "ws")
    /\ Call([Top EXCEPT !.mark = pos], "test", consume_whitespace)
    /\ UNCHANGED <<input, pos, ret, result>>
    /\ UNCHANGED <<cssVars, matchVars, cascadeVars, treeVars>>

\* self.next_char() is char_at, which panics at the end of the input
ParseAttributes_Test ==
    /\ At("parse_attributes", "test")
    /\ IF eof
       THEN Panic("eof")
       ELSE IF next_char = ">"
            THEN Return("attrs", Top.attributes) /\ UNCHANGED result
            ELSE Call(Top, "insert", ParseAttrFrame) /\ UNCHANGED <<ret, result>>
    /\ UNCHANGED <<input, pos>>
    /\ UNCHANGED <<cssVars, matchVars, cascadeVars, treeVars>>

ParseAttributes_Insert ==
    /\ At("parse_attributes", "insert")
    /\ stack' = Append(Below, [Top EXCEPT !.attributes = MapInsert(@, ret.val[1], ret.val[2]),
                                          !.pc = "ws"])
    /\ UNCHANGED <<input, pos, ret, result>>
    /\ UNCHANGED <<cssVars, matchVars, cascadeVars, treeVars>>

ParseAttr_Name ==
    /\ At("parse_attr", "name")
    /\ Call(Top, "eq", parse_tag_name)
    /\ UNCHANGED <<input, pos, ret, result>>
    /\ UNCHANGED <<cssVars, matchVars, cascadeVars, treeVars>>

\* vstart: where the quoted value starts (kept for the properties of the value)
ParseAttr_Eq ==
    /\ At("parse_attr", "eq")
    /\ Expect("=", "attr_eq",
              Call([Top EXCEPT !.name = ret.val, !.vstart = pos'], "value", ParseAttrValueFrame)
                  /\ UNCHANGED <<ret, result>>)
    /\ UNCHANGED input
    /\ UNCHANGED <<cssVars, matchVars, cascadeVars, treeVars>>

ParseAttr_Value ==
    /\ At("parse_attr", "value")
    /\ Return("attr", <<Top.name, ret.val>>)
    /\ UNCHANGED <<input, pos, result>>
    /\ UNCHANGED <<cssVars, matchVars, cascadeVars, treeVars>>

ParseAttrValue_Open ==
    /\ At("parse_attr_value", "open")
    /\ IF eof
       THEN Panic("eof") /\ UNCHANGED pos
       ELSE /\ consume_char
            /\ IF IsQuote(next_char)
               THEN Call(Top, "content", ConsumeWhileFrame("not_quote", next_char))
                        /\ UNCHANGED <<ret, result>>
               ELSE Panic("attr_quote")
    /\ UNCHANGED input
    /\ UNCHANGED <<cssVars, matchVars, cascadeVars, treeVars>>

ParseAttrValue_Content ==
    /\ At("parse_attr_value", "content")
    /\ Return("string", ret.val)
    /\ UNCHANGED <<input, pos, result>>
    /\ UNCHANGED <<cssVars, matchVars, cascadeVars, treeVars>>

-----------------------------------------------------------------------------
(* html.rs: parse *)

HtmlTag == <<"h", "t", "m", "l">>

\* If the document contains a root element, return it. Otherwise create one.
ParseRoot(nodes) ==
    IF Len(nodes) = 1 THEN nodes[1] ELSE elem(HtmlTag, EmptyMap, nodes)

Parse_Call ==
    /\ At("parse", "call")
    /\ Call(Top, "finish", ParseNodesFrame)
    /\ UNCHANGED <<input, pos, ret, result>>
    /\ UNCHANGED <<cssVars, matchVars, cascadeVars, treeVars>>

Parse_Finish ==
    /\ At("parse", "finish")
    /\ result' = Returned(ParseRoot(ret.val))
    /\ stack' = << >>
    /\ UNCHANGED <<input, pos, ret>>
    /\ UNCHANGED <<cssVars, matchVars, cascadeVars, treeVars>>

-----------------------------------------------------------------------------
(* The markup parser on bounded inputs *)

\* The pieces the input texts are made of: single characters, and whole tags
\* so that nested and attributed documents fit within MaxTokens pieces.
HtmlTokens ==
    { <<"<">>, <<">">>, <<"/">>, <<" ">>, <<"a">>, <<"=">>, <<"\"">>,
      <<"<", "a", ">">>, <<"<", "b", ">">>,
      <<"<", "/", "a", ">">>, <<"<", "/", "b", ">">>,
      <<"<", "a", " ">>,
      <<"<", "a", " ", "b", "=", "\"", "a", "\"", ">">>,
      <<"<", "a", " ", "b", "=", "'", "a", " ", "b", "'", " ", "a", "=", "\"", "\"", ">">> }

RECURSIVE Concats(_, _)
Concats(tokens, k) ==
    IF k = 0 THEN {<< >>}
    ELSE LET prev == Concats(tokens, k - 1)
         IN  prev \cup {s \o t : s \in prev, t \in tokens}

HtmlInputs == Concats(HtmlTokens, MaxTokens)

InitHtml ==
    /\ input \in HtmlInputs
    /\ pos = 0
    /\ stack = <<[fn |-> "parse", pc |-> "call"]>>
    /\ ret = NoValue
    /\ result = Running
    /\ IdleCss /\ IdleMatch /\ IdleCascade /\ IdleTree

NextHtml ==
    \/ Parse_Call
    \/ Parse_Finish
    \/ ParseNodes_Whitespace
    \/ ParseNodes_Test
    \/ ParseNodes_Push
    \/ ParseText_Scan
    \/ ParseText_Wrap
    \/ ParseElement_Open
    \/ ParseElement_Attrs
    \/ ParseElement_Gt
    \/ ParseElement_Close
    \/ ParseElement_Slash
    \/ ParseElement_Name
    \/ ParseAttributes_Whitespace
    \/ ParseAttributes_Test
    \/ ParseAttributes_Insert
    \/ ParseAttr_Name
    \/ ParseAttr_Eq
    \/ ParseAttr_Value
    \/ ParseAttrValue_Open
    \/ ParseAttrValue_Content
    \/ ConsumeWhile_Step

SpecHtml == InitHtml /\ [][NextHtml]_vars

\* The parse runs to its end: a single thread with nothing to wait for
FairSpecHtml == SpecHtml /\ WF_vars(NextHtml)

-----------------------------------------------------------------------------
(* Properties of the markup parser *)

\* C1: whenever parse returns a tree, the root of the tree is an Element node,
\* never a Text node (also when the only top-level node is a text run).
C1_RootIsElement ==
    result.kind = "ok" => result.node.node_type.kind = "Element"

\* <a b="a"></a>
AttrDoc == <<"<", "a", " ", "b", "=", "\"", "a", "\"", ">", "<", "/", "a", ">">>

AttrDocTree == elem(<<"a">>, MapInsert(EmptyMap, <<"b">>, <<"a">>), << >>)

\* C4: when parse_attr_value has returned, the cursor is just past the closing
\* quote that matches the opening one (opening quote, content and closing quote
\* are consumed); and the well-formed document <a b="a"></a> parses to the
\* element a whose attribute map is exactly {b: a}.
C4_AttrValueConsumesClosingQuote ==
    /\ (/\ At("parse_attr", "value")
        /\ \E i \in (Top.vstart + 2)..Len(input) : input[i] = input[Top.vstart + 1]) =>
           /\ pos = Top.vstart + Len(ret.val) + 2
           /\ input[pos] = input[Top.vstart + 1]
    /\ (input = AttrDoc /\ result.kind /= "none") => result = Returned(AttrDocTree)

\* <a><b></a>
MismatchDoc == <<"<", "a", ">", "<", "b", ">", "<", "/", "a", ">">>

\* C5: when the name read in a closing tag differs from the name of the element
\* being closed, the parse is abandoned at that comparison with a failure and no
\* tree; a failed parse never turns into a returned tree.
C5_MismatchedCloseAborts ==
    /\ [][(At("parse_element", "name") /\ ret.val /= Top.tag_name)
             => (result' = Panicked("close_tag_name") /\ stack' = << >>)]_vars
    /\ [][result.kind = "panic" => result' = result]_vars

C5_Witness ==
    /\ input = MismatchDoc
    /\ result = Panicked("close_tag_name")
    /\ pos = Len(input) - 1

\* C10: the cursor never moves back and never passes the end of the input;
\* every iteration of the parse_nodes and parse_attributes loops that reaches
\* the end of its body has consumed at least one character, every iteration of
\* consume_while that stays in the loop consumes exactly one; and the parse
\* ends, with a tree or with a failure.
C10_CursorAdvancesAndParseEnds ==
    /\ [][pos' >= pos]_vars
    /\ [](pos <= Len(input))
    /\ [](At("parse_nodes", "push") => pos > Top.mark)
    /\ [](At("parse_attributes", "insert") => pos > Top.mark)
    /\ [][(At("consume_while", "loop") /\ Len(stack') = Len(stack))
             => pos' = pos + 1]_vars
    /\ <>(result.kind /= "none")

\* The second iteration of the top-level parse_nodes loop has ended, after an
\* element with an attribute list was read.
C10_Witness ==
    /\ At("parse_nodes", "push")
    /\ Len(stack) = 2
    /\ Len(Top.nodes) = 1
    /\ Top.nodes[1].node_type.kind = "Element"
    /\ Top.mark > 0
    /\ pos = Len(input)

-----------------------------------------------------------------------------
(* css.rs: selectors and specificity *)

\* Option<String>
None == [some |-> FALSE, val |-> << >>]

Some(v) == [some |-> TRUE, val |-> v]

\* Option::iter().len()
OptionLen(o) == IF o.some THEN 1 ELSE 0

\* SimpleSelector { tag_name: None, id: None, class: Vec::new() }
EmptySelector == [tag_name |-> None, id |-> None, class |-> << >>]

\* Mutant: a selector with classes counts one class
specificity_ClassFlag(simple) ==
    <<OptionLen(simple.id), IF simple.class = << >> THEN 0 ELSE 1, OptionLen(simple.tag_name)>>

\* Selector::specificity: (a, b, c)
specificity(simple) ==
    <<OptionLen(simple.id), Len(simple.class), OptionLen(simple.tag_name)>>

\* Ord::cmp on (uint, uint, uint): lexicographic; -1 less, 0 equal, 1 greater
Cmp(a, b) ==
    IF a[1] /= b[1] THEN (IF a[1] < b[1] THEN -1 ELSE 1)
    ELSE IF a[2] /= b[2] THEN (IF a[2] < b[2] THEN -1 ELSE 1)
    ELSE IF a[3] /= b[3] THEN (IF a[3] < b[3] THEN -1 ELSE 1)
    ELSE 0

\* Mutant: the closure compares a with b
SelectorOrder_Ascending(a, b) == Cmp(specificity(a), specificity(b))

\* The closure parse_selectors sorts by: b.specificity().cmp(&a.specificity())
SelectorOrder(a, b) == Cmp(specificity(b), specificity(a))

\* Mutant: the closure compares b with a
MatchOrder_Descending(a, b) == Cmp(b[1], a[1])

\* The closure specified_values sorts by: |&(a, _), &(b, _)| a.cmp(&b)
MatchOrder(a, b) == Cmp(a[1], b[1])

\* slice::sort_by: a stable sort.  c[i][j] is what the closure returns for
\* (v[i], v[j]).  An element comes after the elements the closure puts before
\* it and after the equal elements that stood before it.
sort_by(v, c) ==
    LET n == Len(v)
        rank(i) == 1 + Cardinality({j \in 1..n : \/ c[j][i] < 0
                                                \/ (c[j][i] = 0 /\ j < i)})
    IN  [k \in 1..n |-> v[CHOOSE i \in 1..n : rank(i) = k]]

-----------------------------------------------------------------------------
(* css.rs: parse_simple_selector, parse_selectors *)

\* The characters of an identifier
valid_identifier_char(c) == IsAlnum(c) \/ c = "-" \/ c = "_"

\* parse_identifier: the identifier characters from cursor p on
RECURSIVE parse_identifier(_, _)
parse_identifier(inp, p) ==
    IF p < Len(inp) /\ valid_identifier_char(inp[p + 1])
    THEN <<inp[p + 1]>> \o parse_identifier(inp, p + 1)
    ELSE << >>

\* The css parser's consume_whitespace: the cursor after the white space at p
RECURSIVE SkipWhitespace(_, _)
SkipWhitespace(inp, p) ==
    IF p < Len(inp) /\ IsWhitespace(inp[p + 1]) THEN SkipWhitespace(inp, p + 1) ELSE p

\* parse_simple_selector, from cursor p with the fields read so far: the
\* selector and the cursor where the loop ends
RECURSIVE parse_simple_selector(_, _, _)
parse_simple_selector(inp, p, selector) ==
    IF p >= Len(inp) THEN [selector |-> selector, pos |-> p]
    ELSE LET c == inp[p + 1]
             word == parse_identifier(inp, p + 1)
         IN  CASE c = "#" ->
                    parse_simple_selector(inp, p + 1 + Len(word),
                                          [selector EXCEPT !.id = Some(word)])
               [] c = "." ->
                    parse_simple_selector(inp, p + 1 + Len(word),
                                          [selector EXCEPT !.class = Append(@, word)])
               [] c = "*" ->
                    parse_simple_selector(inp, p + 1, selector)
               [] c \notin {"#", ".", "*"} /\ valid_identifier_char(c) ->
                    LET name == parse_identifier(inp, p)
                    IN  parse_simple_selector(inp, p + Len(name),
                                              [selector EXCEPT !.tag_name = Some(name)])
               [] OTHER -> [selector |-> selector, pos |-> p]

-----------------------------------------------------------------------------
(* style.rs: selector matching *)

IdKey == <<"i", "d">>

ClassKey == <<"c", "l", "a", "s", "s">>

\* HashMap::get
MapGet(m, k) == IF k \in DOMAIN m THEN Some(m[k]) ELSE None

\* ElementData::id
ElementId(e) == MapGet(e.attributes, IdKey)

\* str::split(' '): the pieces between the spaces, empty pieces included
RECURSIVE Split(_)
Split(s) ==
    IF \A i \in 1..Len(s) : s[i] /= " " THEN <<s>>
    ELSE LET k == CHOOSE i \in 1..Len(s) :
                      s[i] = " " /\ \A j \in 1..(i - 1) : s[j] /= " "
         IN  <<SubSeq(s, 1, k - 1)>> \o Split(SubSeq(s, k + 1, Len(s)))

SeqToSet(q) == {q[i] : i \in DOMAIN q}

\* ElementData::classes: the pieces collected into a HashSet, empty when the
\* element has no class attribute (the source omits the `match` head line)
classes(e) ==
    LET classlist == MapGet(e.attributes, ClassKey)
    IN  IF classlist.some THEN SeqToSet(Split(classlist.val)) ELSE {}

\* Mutant: the class check passes when one of the selector's classes is there
matches_simple_selector_AnyClass(e, selector) ==
    IF selector.tag_name.some /\ e.tag_name /= selector.tag_name.val THEN FALSE
    ELSE IF selector.id.some /\ ElementId(e) /= Some(selector.id.val) THEN FALSE
    ELSE IF /\ selector.class /= << >>
            /\ \A i \in DOMAIN selector.class : selector.class[i] \notin classes(e)
         THEN FALSE
    ELSE TRUE

\* matches_simple_selector: the three checks in turn
matches_simple_selector(e, selector) ==
    IF selector.tag_name.some /\ e.tag_name /= selector.tag_name.val THEN FALSE
    ELSE IF selector.id.some /\ ElementId(e) /= Some(selector.id.val) THEN FALSE
    ELSE IF \E i \in DOMAIN selector.class : selector.class[i] \notin classes(e)
         THEN FALSE
    ELSE TRUE

\* matches: the one variant of Selector is Simple
matches(e, selector) == matches_simple_selector(e, selector)

\* Option<MatchedRule>: (specificity, &rule) of the first selector that
\* matches; the reference to the rule is its place in stylesheet.rules
match_rule(e, rules, ref) ==
    LET list == rules[ref].selectors
        hits == {i \in DOMAIN list : matches(e, list[i])}
    IN  IF hits = {} THEN None
        ELSE LET first == CHOOSE i \in hits : \A j \in hits : i <= j
             IN  Some(<<specificity(list[first]), ref>>)

\* filter_map over stylesheet.rules, in order, from rule `from` on
RECURSIVE MatchingRulesFrom(_, _, _)
MatchingRulesFrom(e, rules, from) ==
    IF from > Len(rules) THEN << >>
    ELSE LET m == match_rule(e, rules, from)
             rest == MatchingRulesFrom(e, rules, from + 1)
         IN  IF m.some THEN <<m.val>> \o rest ELSE rest

matching_rules(e, rules) == MatchingRulesFrom(e, rules, 1)

-----------------------------------------------------------------------------
(* The elements the selectors are matched against *)

ElementData(tag, id, class) ==
    LET a == IF id.some THEN MapInsert(EmptyMap, IdKey, id.val) ELSE EmptyMap
    IN  [tag_name |-> tag,
         attributes |-> IF class.some THEN MapInsert(a, ClassKey, class.val) ELSE a]

Elements ==
    {ElementData(tag, id, class) :
        tag \in {<<"p">>, <<"q">>},
        id \in {None, Some(<<"p">>), Some(<<"q">>)},
        class \in {None, Some(<< >>), Some(<<"p">>), Some(<<"p", " ", "q">>),
                   Some(<<"q", " ", "p">>), Some(<<"p", " ", " ", "q">>)}}

-----------------------------------------------------------------------------
(* css.rs: parse_selectors on bounded inputs *)

CssOut(kind, list) == [kind |-> kind, selectors |-> list]

\* selectors.push(Selector::Simple(self.parse_simple_selector()));
\* self.consume_whitespace();
ParseSelectors_Push ==
    /\ css_out.kind = "selector"
    /\ LET r == parse_simple_selector(css_input, css_pos, EmptySelector)
       IN  /\ selectors' = Append(selectors, r.selector)
           /\ css_span' = <<css_pos, r.pos>>
           /\ css_pos' = SkipWhitespace(css_input, r.pos)
    /\ css_out' = CssOut("match", << >>)
    /\ UNCHANGED <<css_input, htmlVars, matchVars, cascadeVars, treeVars>>

\* match self.next_char(): a comma goes on with the loop, a brace leaves it for
\* the sort and the return, anything else panics (as char_at does at the end)
ParseSelectors_Match ==
    /\ css_out.kind = "match"
    /\ IF css_pos >= Len(css_input)
       THEN css_out' = CssOut("panic", << >>) /\ UNCHANGED css_pos
       ELSE CASE css_input[css_pos + 1] = "," ->
                   /\ css_pos' = SkipWhitespace(css_input, css_pos + 1)
                   /\ css_out' = CssOut("selector", << >>)
              [] css_input[css_pos + 1] = "{" ->
                   /\ css_out' = CssOut("done", sort_by(selectors,
                           [i \in DOMAIN selectors |-> [j \in DOMAIN selectors |->
                               SelectorOrder(selectors[i], selectors[j])]]))
                   /\ UNCHANGED css_pos
              [] OTHER ->
                   css_out' = CssOut("panic", << >>) /\ UNCHANGED css_pos
    /\ UNCHANGED <<css_input, selectors, css_span, htmlVars, matchVars, cascadeVars, treeVars>>

\* The pieces the selector lists are made of
CssTokens ==
    { <<"p">>, <<"q">>, <<"#", "p">>, <<".", "p">>, <<".", "q">>,
      <<"#">>, <<".">>, <<"*">>, <<",">>, <<"{">>, <<" ">> }

CssInputs == Concats(CssTokens, MaxCssTokens)

InitCss ==
    /\ css_input \in CssInputs
    /\ css_pos = 0
    /\ selectors = << >>
    /\ css_span = <<0, 0>>
    /\ css_out = CssOut("selector", << >>)
    /\ IdleHtml /\ IdleMatch /\ IdleCascade /\ IdleTree

NextCss ==
    \/ ParseSelectors_Push
    \/ ParseSelectors_Match

SpecCss == InitCss /\ [][NextCss]_vars

-----------------------------------------------------------------------------
(* Properties of the selector parser *)

\* C7: the selector list parse_selectors returns is sorted by descending
\* specificity, and for every element the selector match_rule picks (the first
\* that matches) has the greatest specificity among the selectors of the rule
\* that match the element.
C7_FirstMatchIsMostSpecific ==
    css_out.kind = "done" =>
        LET list == css_out.selectors
            sheet == <<[selectors |-> list, declarations |-> << >>]>>
        IN  /\ Len(list) = Len(selectors)
            /\ \A i, j \in DOMAIN list :
                   i < j => Cmp(specificity(list[i]), specificity(list[j])) >= 0
            /\ \A e \in Elements : \A i \in DOMAIN list :
                   matches(e, list[i]) =>
                       /\ match_rule(e, sheet, 1).some
                       /\ Cmp(match_rule(e, sheet, 1).val[1], specificity(list[i])) >= 0

\* The list p,.p was read and sorted: the class selector now stands first.
C7_Witness ==
    /\ css_out.kind = "done"
    /\ selectors = <<[EmptySelector EXCEPT !.tag_name = Some(<<"p">>)],
                     [EmptySelector EXCEPT !.class = <<(<<"p">>)>>]>>
    /\ css_out.selectors = <<selectors[2], selectors[1]>>

\* The number of times character c stands in css_input after cursor a, up to cursor b
CountIn(c, a, b) == Cardinality({i \in (a + 1)..b : css_input[i] = c})

\* C8 as stated: each component of the specificity of a selector that
\* parse_simple_selector produced is 0 or 1.
C8_ComponentsAtMostOne ==
    \A i \in DOMAIN selectors :
        \A k \in 1..3 : specificity(selectors[i])[k] \in {0, 1}

\* C8, amended: the id and the tag component are 0 or 1; the class component is
\* the number of class fragments (the characters '.') of the selector's text,
\* which can be greater than 1.
C8_ClassComponentCountsFragments ==
    selectors /= << >> =>
        LET last == selectors[Len(selectors)]
        IN  /\ specificity(last)[1] \in {0, 1}
            /\ specificity(last)[3] \in {0, 1}
            /\ specificity(last)[2] = CountIn(".", css_span[1], css_span[2])
            /\ specificity(last)[1] = 1 <=> CountIn("#", css_span[1], css_span[2]) > 0

\* The selector .p.q was read: two class fragments.
C8_Witness ==
    /\ selectors /= << >>
    /\ specificity(selectors[Len(selectors)]) = <<0, 2, 0>>
    /\ css_span[2] - css_span[1] = 4

-----------------------------------------------------------------------------
(* style.rs: matches_simple_selector on bounded arguments *)

\* The simple selectors handed to the matcher: what parse_simple_selector yields
\* on the names p and q and on an empty identifier
SimpleSelectors ==
    {[tag_name |-> tag, id |-> id, class |-> class] :
        tag \in {None, Some(<<"p">>), Some(<<"q">>)},
        id \in {None, Some(<<"p">>), Some(<<"q">>), Some(<< >>)},
        class \in {<< >>, <<(<<"p">>)>>, <<(<<"q">>)>>, <<(<<"p">>), (<<"q">>)>>,
                   <<(<<"p">>), (<<"p">>)>>, <<(<< >>)>>}}

Match ==
    /\ m_out.kind = "none"
    /\ m_out' = [kind |-> "returned", val |-> matches_simple_selector(m_elem, m_sel)]
    /\ UNCHANGED <<m_elem, m_sel, htmlVars, cssVars, cascadeVars, treeVars>>

InitMatch ==
    /\ m_elem \in Elements
    /\ m_sel \in SimpleSelectors
    /\ m_out = [kind |-> "none"]
    /\ IdleHtml /\ IdleCss /\ IdleCascade /\ IdleTree

NextMatch == Match

SpecMatch == InitMatch /\ [][NextMatch]_vars

\* The pieces of s between single spaces: the stretches without a space that
\* start at the beginning of s or after a space and end at the end of s or
\* before a space
PiecesBetweenSpaces(s) ==
    {SubSeq(s, i + 1, j) : <<i, j>> \in
        {<<i, j>> \in (0..Len(s)) \X (0..Len(s)) :
            /\ i <= j
            /\ \A k \in (i + 1)..j : s[k] /= " "
            /\ (i = 0 \/ s[i] = " ")
            /\ (j = Len(s) \/ s[j + 1] = " ")}}

\* C9: matches_simple_selector returns true exactly when the selector's tag
\* name is absent or is the element's, its id is absent or the element has that
\* id attribute, and each of its class names is among the pieces of the
\* element's class attribute split on single spaces (none without the
\* attribute); a selector with no tag, id or class matches every element.
C9_MatchesExactlyWhen ==
    m_out.kind = "returned" =>
        LET attrs == m_elem.attributes
            tagOk == ~m_sel.tag_name.some \/ m_sel.tag_name.val = m_elem.tag_name
            idOk == ~m_sel.id.some \/ (IdKey \in DOMAIN attrs /\ attrs[IdKey] = m_sel.id.val)
            set == IF ClassKey \in DOMAIN attrs THEN PiecesBetweenSpaces(attrs[ClassKey]) ELSE {}
            classOk == \A i \in DOMAIN m_sel.class : m_sel.class[i] \in set
        IN  /\ m_out.val = (tagOk /\ idOk /\ classOk)
            /\ m_sel = EmptySelector => m_out.val = TRUE

\* p#p.p.q matched <p id="p" class="q p">.
C9_Witness ==
    /\ m_out.kind = "returned"
    /\ m_out.val = TRUE
    /\ m_sel = [tag_name |-> Some(<<"p">>), id |-> Some(<<"p">>),
                class |-> <<(<<"p">>), (<<"q">>)>>]
    /\ m_elem = ElementData(<<"p">>, Some(<<"p">>), Some(<<"q", " ", "p">>))

-----------------------------------------------------------------------------
(* style.rs: specified_values *)

\* for declaration in rule.declarations.iter() { values.insert(name, value) }
RECURSIVE InsertDeclarations(_, _)
InsertDeclarations(values, declarations) ==
    IF declarations = << >> THEN values
    ELSE InsertDeclarations(MapInsert(values, declarations[1].name, declarations[1].value),
                            SubSeq(declarations, 2, Len(declarations)))

\* for &(_, rule) in rules.iter() { ... }
RECURSIVE ApplyRules(_, _, _)
ApplyRules(values, matched, rules) ==
    IF matched = << >> THEN values
    ELSE ApplyRules(InsertDeclarations(values, rules[matched[1][2]].declarations),
                    SubSeq(matched, 2, Len(matched)), rules)

Reverse(q) == [i \in 1..Len(q) |-> q[Len(q) + 1 - i]]

\* Mutant: a sort that puts equal elements in the opposite order
SortMatches_Unstable(matched) ==
    Reverse(sort_by(matched, [i \in DOMAIN matched |-> [j \in DOMAIN matched |->
                                 MatchOrder_Descending(matched[i], matched[j])]]))

\* rules.sort_by(|&(a, _), &(b, _)| a.cmp(&b))
SortMatches(matched) ==
    sort_by(matched, [i \in DOMAIN matched |-> [j \in DOMAIN matched |->
                         MatchOrder(matched[i], matched[j])]])

\* specified_values: the sorted matches and the map built from them
specified_values(e, rules) ==
    LET sorted == SortMatches(matching_rules(e, rules))
    IN  [kind |-> "returned", rules |-> sorted,
         values |-> ApplyRules(EmptyMap, sorted, rules)]

-----------------------------------------------------------------------------
(* The cascade on bounded style sheets *)

Declaration(name, value) == [name |-> name, value |-> value]

Rule(list, declarations) == [selectors |-> list, declarations |-> declarations]

TagSelector(t) == [EmptySelector EXCEPT !.tag_name = Some(t)]

IdSelector(i) == [EmptySelector EXCEPT !.id = Some(i)]

ClassSelector(c) == [EmptySelector EXCEPT !.class = <<c>>]

\* Selector lists as parse_selectors returns them: most specific first
SelectorLists ==
    { <<TagSelector(<<"p">>)>>, <<ClassSelector(<<"p">>)>>, <<ClassSelector(<<"q">>)>>,
      <<IdSelector(<<"p">>), TagSelector(<<"p">>)>> }

DeclarationLists ==
    { <<Declaration("color", "red")>>, <<Declaration("color", "blue")>>,
      <<Declaration("margin", "red")>>,
      <<Declaration("color", "red"), Declaration("color", "blue")>> }

Rules == {Rule(l, d) : l \in SelectorLists, d \in DeclarationLists}

PropertyNames == {"color", "margin"}

\* <p id="p" class="q p">, <p>, <q class="p">
CascadeElements ==
    { ElementData(<<"p">>, Some(<<"p">>), Some(<<"q", " ", "p">>)),
      ElementData(<<"p">>, None, None),
      ElementData(<<"q">>, None, Some(<<"p">>)) }

\* The style-sheet parser appends one more rule
AddRule ==
    /\ c_out.kind = "none"
    /\ Len(c_sheet) < MaxRules
    /\ \E r \in Rules : c_sheet' = Append(c_sheet, r)
    /\ UNCHANGED <<c_elem, c_out, htmlVars, cssVars, matchVars, treeVars>>

Resolve ==
    /\ c_out.kind = "none"
    /\ c_out' = specified_values(c_elem, c_sheet)
    /\ UNCHANGED <<c_elem, c_sheet, htmlVars, cssVars, matchVars, treeVars>>

InitCascade ==
    /\ c_elem \in CascadeElements
    /\ c_sheet = << >>
    /\ c_out = [kind |-> "none"]
    /\ IdleHtml /\ IdleCss /\ IdleMatch /\ IdleTree

NextCascade ==
    \/ AddRule
    \/ Resolve

SpecCascade == InitCascade /\ [][NextCascade]_vars

-----------------------------------------------------------------------------
(* Properties of the cascade *)

\* Rule i of the style sheet matches the element
Matched(i) == match_rule(c_elem, c_sheet, i).some

\* The specificity of the selector of rule i that match_rule picks
MatchedSpecificity(i) == match_rule(c_elem, c_sheet, i).val[1]

Declares(i, n) == \E d \in DOMAIN c_sheet[i].declarations : c_sheet[i].declarations[d].name = n

\* The value rule i gives property n: that of its last declaration of n
RuleValue(i, n) ==
    LET ds == c_sheet[i].declarations
        last == CHOOSE d \in DOMAIN ds :
                    ds[d].name = n /\ \A x \in DOMAIN ds : ds[x].name = n => x <= d
    IN  ds[last].value

Resolved(n, v) == n \in DOMAIN c_out.values /\ c_out.values[n] = v

\* Another matching rule declares n and is applied after rule j: it is more
\* specific than j, or as specific and later in the style sheet
Overridden(j, n) ==
    \E k \in DOMAIN c_sheet :
        /\ k /= j
        /\ Matched(k)
        /\ Declares(k, n)
        /\ \/ Cmp(MatchedSpecificity(k), MatchedSpecificity(j)) > 0
           \/ (Cmp(MatchedSpecificity(k), MatchedSpecificity(j)) = 0 /\ k > j)

\* C2 as stated: for every pair of rules R1, R2 that match the element and
\* declare the same property, R2 the more specific, the resolved map holds
\* R2's value, whichever comes first.
C2_MoreSpecificRuleWins ==
    c_out.kind = "returned" =>
        \A i, j \in DOMAIN c_sheet : \A n \in PropertyNames :
            (/\ Matched(i) /\ Matched(j)
             /\ Declares(i, n) /\ Declares(j, n)
             /\ Cmp(MatchedSpecificity(j), MatchedSpecificity(i)) > 0)
            => Resolved(n, RuleValue(j, n))

\* C2, amended: ... the resolved map holds R2's value, whichever comes first,
\* unless another matching rule that declares the property is more specific
\* than R2, or as specific as R2 and later in the style sheet.
C2_MoreSpecificRuleWinsUnlessOverridden ==
    c_out.kind = "returned" =>
        \A i, j \in DOMAIN c_sheet : \A n \in PropertyNames :
            (/\ Matched(i) /\ Matched(j)
             /\ Declares(i, n) /\ Declares(j, n)
             /\ Cmp(MatchedSpecificity(j), MatchedSpecificity(i)) > 0
             /\ ~Overridden(j, n))
            => Resolved(n, RuleValue(j, n))

\* <p id="p" class="q p"> with #p, p {color: blue} before p {color: red}: the
\* earlier rule matches by its id selector and gives the colour.
C2_Witness ==
    /\ c_out.kind = "returned"
    /\ c_elem = ElementData(<<"p">>, Some(<<"p">>), Some(<<"q", " ", "p">>))
    /\ c_sheet = <<Rule(<<IdSelector(<<"p">>), TagSelector(<<"p">>)>>,
                        <<Declaration("color", "blue")>>),
                   Rule(<<TagSelector(<<"p">>)>>, <<Declaration("color", "red")>>)>>
    /\ Resolved("color", "blue")

\* C3 as stated: when two rules match the element with equal specificity and
\* declare the same property, the resolved value is that of the later rule; and
\* the sort keeps candidates of equal specificity in source order.
C3_LaterRuleWinsTies ==
    c_out.kind = "returned" =>
        /\ \A i, j \in DOMAIN c_sheet : \A n \in PropertyNames :
               (/\ i < j
                /\ Matched(i) /\ Matched(j)
                /\ Declares(i, n) /\ Declares(j, n)
                /\ Cmp(MatchedSpecificity(j), MatchedSpecificity(i)) = 0)
               => Resolved(n, RuleValue(j, n))
        /\ \A a, b \in DOMAIN c_out.rules :
               (a < b /\ Cmp(c_out.rules[a][1], c_out.rules[b][1]) = 0)
               => c_out.rules[a][2] < c_out.rules[b][2]

\* C3, amended: ... the resolved value is that of the later rule, unless
\* another matching rule that declares the property is more specific, or as
\* specific and later still; the candidates are sorted by ascending specificity
\* and the sort keeps candidates of equal specificity in source order.
C3_LaterRuleWinsTiesUnlessOverridden ==
    c_out.kind = "returned" =>
        /\ \A i, j \in DOMAIN c_sheet : \A n \in PropertyNames :
               (/\ i < j
                /\ Matched(i) /\ Matched(j)
                /\ Declares(i, n) /\ Declares(j, n)
                /\ Cmp(MatchedSpecificity(j), MatchedSpecificity(i)) = 0
                /\ ~Overridden(j, n))
               => Resolved(n, RuleValue(j, n))
        /\ \A a, b \in DOMAIN c_out.rules :
               a < b =>
                   /\ Cmp(c_out.rules[a][1], c_out.rules[b][1]) <= 0
                   /\ Cmp(c_out.rules[a][1], c_out.rules[b][1]) = 0
                          => c_out.rules[a][2] < c_out.rules[b][2]

\* <p id="p" class="q p"> with .p {color: red} before .q {color: blue}: equal
\* specificity, the later rule gives the colour.
C3_Witness ==
    /\ c_out.kind = "returned"
    /\ c_elem = ElementData(<<"p">>, Some(<<"p">>), Some(<<"q", " ", "p">>))
    /\ c_sheet = <<Rule(<<ClassSelector(<<"p">>)>>, <<Declaration("color", "red")>>),
                   Rule(<<ClassSelector(<<"q">>)>>, <<Declaration("color", "blue")>>)>>
    /\ c_out.rules = <<(<<(<<0, 1, 0>>), 1>>), (<<(<<0, 1, 0>>), 2>>)>>
    /\ Resolved("color", "blue")

-----------------------------------------------------------------------------
(* style.rs: style_tree *)

\* Element(ref elem): the ElementData of an element node
ElementOf(node) ==
    [tag_name |-> node.node_type.tag_name, attributes |-> node.node_type.attributes]

\* The property map of one node
NodeValues(node, rules) ==
    IF node.node_type.kind = "Element"
    THEN specified_values(ElementOf(node), rules).values
    ELSE EmptyMap

\* Mutant: only the element children are styled
RECURSIVE style_tree_ElementsOnly(_, _)
style_tree_ElementsOnly(root, rules) ==
    LET kept == SelectSeq(root.children, LAMBDA c : c.node_type.kind = "Element")
    IN  [node |-> root,
         specified_values |-> NodeValues(root, rules),
         children |-> [i \in 1..Len(kept) |-> style_tree_ElementsOnly(kept[i], rules)]]

\* style_tree: the StyledNode of root, its children those of root's children
RECURSIVE style_tree(_, _)
style_tree(root, rules) ==
    [node |-> root,
     specified_values |-> NodeValues(root, rules),
     children |-> [i \in 1..Len(root.children) |-> style_tree(root.children[i], rules)]]

-----------------------------------------------------------------------------
(* style_tree on bounded documents *)

\* The sequences of at most n members of set
SeqsUpTo(set, n) == UNION {[1..k -> set] : k \in 0..n}

\* hi, <p></p>
Leaves == {text(<<"h", "i">>), elem(<<"p">>, EmptyMap, << >>)}

\* <p>, <q class="p">
InnerData == {[tag |-> <<"p">>, attrs |-> EmptyMap],
              [tag |-> <<"q">>, attrs |-> MapInsert(EmptyMap, ClassKey, <<"p">>)]}

Subtrees ==
    Leaves \cup {elem(d.tag, d.attrs, ch) : d \in InnerData, ch \in SeqsUpTo(Leaves, MaxChildren)}

Documents ==
    Subtrees \cup {elem(HtmlTag, EmptyMap, ch) : ch \in SeqsUpTo(Subtrees, MaxChildren)}

TreeSheets ==
    { << >>,
      <<Rule(<<TagSelector(<<"p">>)>>, <<Declaration("color", "red")>>)>>,
      <<Rule(<<ClassSelector(<<"p">>), TagSelector(<<"p">>)>>, <<Declaration("color", "blue")>>),
        Rule(<<TagSelector(<<"q">>)>>, <<Declaration("color", "red"), Declaration("margin", "red")>>)>> }

StyleTree ==
    /\ t_out.kind = "none"
    /\ t_out' = [kind |-> "returned", val |-> style_tree(t_root, t_sheet)]
    /\ UNCHANGED <<t_root, t_sheet, htmlVars, cssVars, matchVars, cascadeVars>>

InitTree ==
    /\ t_root \in Documents
    /\ t_sheet \in TreeSheets
    /\ t_out = [kind |-> "none"]
    /\ IdleHtml /\ IdleCss /\ IdleMatch /\ IdleCascade

NextTree == StyleTree

SpecTree == InitTree /\ [][NextTree]_vars

RECURSIVE SameShape(_, _)
SameShape(styled, node) ==
    /\ styled.node = node
    /\ Len(styled.children) = Len(node.children)
    /\ \A i \in 1..Len(node.children) : SameShape(styled.children[i], node.children[i])

RECURSIVE NodeCount(_)
NodeCount(tree) ==
    LET RECURSIVE Sum(_)
        Sum(k) == IF k = 0 THEN 0 ELSE NodeCount(tree.children[k]) + Sum(k - 1)
    IN  1 + Sum(Len(tree.children))

\* C6: the Styled tree style_tree returns has the shape of the Document tree:
\* each Styled node refers to its Document node and has as many children, the
\* i-th child being the Styled node of the Document node's i-th child; the two
\* trees have as many nodes.
C6_StyledTreeHasDocumentShape ==
    t_out.kind = "returned" =>
        /\ SameShape(t_out.val, t_root)
        /\ NodeCount(t_out.val) = NodeCount(t_root)

\* A document of three levels with a text child and an element child was styled.
C6_Witness ==
    /\ t_out.kind = "returned"
    /\ Len(t_root.children) = 2
    /\ t_root.children[1].node_type.kind = "Text"
    /\ t_root.children[2].node_type.kind = "Element"
    /\ Len(t_root.children[2].children) = 2
    /\ t_root.children[2].children[2].node_type.kind = "Text"
    /\ t_out.val.children[2].children[2].node = t_root.children[2].children[2]
    /\ t_out.val.children[2].specified_values /= EmptyMap

=============================================================================
